---- MODULE Spec2Model ----
(***************************************************************************)
(* GithubRepositoryReader (loader_hub/github_repo/base.py): one harvest,   *)
(* from load_data through the tree walk (_recurse_tree), the bounded blob  *)
(* fetch and the per-blob document synthesis (_generate_documents).        *)
(*                                                                         *)
(* Python strings are TLA+ strings; bytes and decoded text are sequences   *)
(* of integers (byte values, code points); Optional[x] is a sequence of    *)
(* length 0 (None) or 1.                                                   *)
(***************************************************************************)
EXTENDS Integers, Sequences, FiniteSets, TLC

VARIABLES
    reader,           \* the fields __init__ stores on self
    commit_sha,       \* load_data argument (Optional[str])
    branch,           \* load_data argument (Optional[str])
    debug,            \* Python's __debug__: FALSE under -O, where assert is stripped
    repo,             \* the repository the github client serves
    pc,               \* position of the single control flow
    exception,        \* the exception that escaped load_data, if any
    calls,            \* log of the github client calls, in order
    stack,            \* activation records of _recurse_tree, innermost last
    blobs_and_paths,  \* the list _recurse_tree returned for the root
    in_flight,        \* indices of blobs_and_paths whose get_blob is running
    next_ref,         \* index of the first reference not yet submitted
    yield_log,        \* indices yielded to the async-for body, in order
    documents,        \* the list _generate_documents accumulates and returns
    probe             \* a path and the verdict of _check_filter_directories on it

vars == <<reader, commit_sha, branch, debug, repo, pc, exception, calls, stack,
          blobs_and_paths, in_flight, next_ref, yield_log, documents, probe>>

----------------------------------------------------------------------------
(* Bounds of the model. *)

MaxConcurrency == 2   \* concurrent_requests ranges over -1..MaxConcurrency
MaxBlobs == 5         \* the flat repository holds 0..MaxBlobs blobs

None == <<>>
Some(x) == <<x>>

EXCLUDE == "EXCLUDE"
INCLUDE == "INCLUDE"
UNKNOWN == "UNKNOWN"   \* any value that is neither member of FilterType

----------------------------------------------------------------------------
(* Library functions the reader calls. *)

Range(s) == {s[i] : i \in 1..Len(s)}

Min(a, b) == IF a <= b THEN a ELSE b

startswith(s, prefix) ==
    Len(prefix) <= Len(s) /\ SubSeq(s, 1, Len(prefix)) = prefix

CharAt(s, i) == SubSeq(s, i, i)

\* os.path.join(a, b) for two components (posixpath)
os_path_join(a, b) ==
    IF startswith(b, "/") THEN b
    ELSE IF a = "" \/ CharAt(a, Len(a)) = "/" THEN a \o b
    ELSE a \o "/" \o b

\* positions of character c in s
Positions(s, c) == {i \in 1..Len(s) : CharAt(s, i) = c}

Max(S) == CHOOSE m \in S : \A x \in S : x <= m

\* full_path.split("/")[-1]
LastSegment(path) ==
    IF Positions(path, "/") = {} THEN path
    ELSE SubSeq(path, Max(Positions(path, "/")) + 1, Len(path))

\* the file extension of a path: the final "." of its last segment and what
\* follows it; empty if the segment has none
get_file_extension(filename) ==
    LET seg == LastSegment(filename)
        dots == Positions(seg, ".")
    IN  IF dots = {} THEN "" ELSE SubSeq(seg, Max(dots), Len(seg))

Base64Alphabet ==
    "ABCDEFGHIJKLMNOPQRSTUVWXYZabcdefghijklmnopqrstuvwxyz0123456789+/"

B64Value(c) == (CHOOSE i \in 1..64 : CharAt(Base64Alphabet, i) = c) - 1

\* the bytes of one group of four base64 characters
B64Quantum(q) ==
    LET v(i) == B64Value(CharAt(q, i))
    IN  IF SubSeq(q, 3, 4) = "=="
        THEN << v(1) * 4 + (v(2) \div 16) >>
        ELSE IF CharAt(q, 4) = "="
        THEN << v(1) * 4 + (v(2) \div 16),
                (v(2) % 16) * 16 + (v(3) \div 4) >>
        ELSE << v(1) * 4 + (v(2) \div 16),
                (v(2) % 16) * 16 + (v(3) \div 4),
                (v(3) % 4) * 64 + v(4) >>

RECURSIVE B64Bytes(_)
B64Bytes(s) ==
    IF s = "" THEN <<>>
    ELSE B64Quantum(SubSeq(s, 1, 4)) \o B64Bytes(SubSeq(s, 5, Len(s)))

\* base64.b64decode(s): [ok |-> FALSE] stands for binascii.Error (incorrect
\* padding); the contents served here hold alphabet characters and "=" only
b64decode(s) ==
    IF Len(s) % 4 # 0
    THEN [ok |-> FALSE, bytes |-> <<>>]
    ELSE [ok |-> TRUE, bytes |-> B64Bytes(s)]

\* is the byte sequence well-formed UTF-8 (one- and two-byte forms)
RECURSIVE Utf8Valid(_)
Utf8Valid(b) ==
    IF b = <<>> THEN TRUE
    ELSE IF b[1] < 128 THEN Utf8Valid(Tail(b))
    ELSE IF b[1] >= 194 /\ b[1] <= 223 /\ Len(b) >= 2 /\ b[2] >= 128 /\ b[2] <= 191
    THEN Utf8Valid(SubSeq(b, 3, Len(b)))
    ELSE FALSE

RECURSIVE Utf8CodePoints(_)
Utf8CodePoints(b) ==
    IF b = <<>> THEN <<>>
    ELSE IF b[1] < 128 THEN <<b[1]>> \o Utf8CodePoints(Tail(b))
    ELSE <<(b[1] - 192) * 64 + (b[2] - 128)>> \o Utf8CodePoints(SubSeq(b, 3, Len(b)))

\* bytes.decode("utf-8"): [ok |-> FALSE] stands for UnicodeDecodeError
utf8_decode(b) ==
    IF Utf8Valid(b) THEN [ok |-> TRUE, text |-> Utf8CodePoints(b)]
    ELSE [ok |-> FALSE, text |-> <<>>]

\* sep.join(segments), on sequences of code points
RECURSIVE join(_, _)
join(sep, segments) ==
    IF segments = <<>> THEN <<>>
    ELSE IF Len(segments) = 1 THEN segments[1]
    ELSE segments[1] \o sep \o join(sep, Tail(segments))

----------------------------------------------------------------------------
(* The collaborators: a github client serving fixed repositories, and the  *)
(* parser registry.                                                        *)

TreeObj(path, type, sha) == [path |-> path, type |-> type, sha |-> sha]

BlobData(sha, encoding, content) ==
    [sha |-> sha, encoding |-> encoding, content |-> content]

\* the blobs of the flat repository, by position (the list repeats)
FlatKinds == <<
    [ext |-> ".md",  encoding |-> "base64", content |-> "YQ=="],  \* b"a"
    [ext |-> ".txt", encoding |-> "base64", content |-> "YQ"],    \* bad padding
    [ext |-> ".md",  encoding |-> "base64", content |-> "/w=="],  \* b"\xff"
    [ext |-> ".md",  encoding |-> "base64", content |-> "IQ=="],  \* b"!"
    [ext |-> ".txt", encoding |-> "utf-8",  content |-> "b"] >>     \* plain text

FlatKind(i) == FlatKinds[((i - 1) % Len(FlatKinds)) + 1]

FlatObj(i) == TreeObj("f" \o ToString(i) \o FlatKind(i).ext, "blob", "b" \o ToString(i))

Repos ==
    {[name |-> "e2e", n |-> 3], [name |-> "docs", n |-> 7]}
        \cup {[name |-> "flat", n |-> k] : k \in 0..MaxBlobs}

RootTree == "t_root"

\* get_tree(owner, repo, tree_sha).tree
get_tree(rp, tree_sha) ==
    IF rp.name = "e2e" THEN
        IF tree_sha = RootTree
        THEN << TreeObj("a.md", "blob", "b_a"), TreeObj("b.png", "blob", "b_b"),
                TreeObj("dir", "tree", "t_dir") >>
        ELSE << TreeObj("c.md", "blob", "b_c") >>
    ELSE IF rp.name = "docs" THEN
        CASE tree_sha = RootTree ->
                << TreeObj("README.md", "blob", "b_readme"),
                   TreeObj("doc", "tree", "t_doc"),
                   TreeObj("docs", "tree", "t_docs"),
                   TreeObj("src", "tree", "t_src") >>
          [] tree_sha = "t_doc" -> << TreeObj("x.md", "blob", "b_x"),
                                      TreeObj("sub", "tree", "t_sub") >>
          [] tree_sha = "t_sub" -> << TreeObj("y.md", "blob", "b_y") >>
          [] tree_sha = "t_docs" -> << TreeObj("api", "tree", "t_api"),
                                       TreeObj("readme.md", "blob", "b_docs") >>
          [] tree_sha = "t_api" -> << TreeObj("v1.md", "blob", "b_v1") >>
          [] tree_sha = "t_pkg" -> << TreeObj("p.go", "blob", "b_p") >>
          [] OTHER -> << TreeObj("main.go", "blob", "b_main"),
                         TreeObj("pkg", "tree", "t_pkg") >>
    ELSE [i \in 1..rp.n |-> FlatObj(i)]

\* get_blob(owner, repo, sha)
get_blob(rp, sha) ==
    IF rp.name = "e2e" THEN
        CASE sha = "b_a" -> BlobData(sha, "base64", "YQ==")
          [] sha = "b_b" -> BlobData(sha, "base64", "/w==")
          [] OTHER -> BlobData(sha, "base64", "Yg==")
    ELSE IF rp.name = "docs" THEN BlobData(sha, "base64", "YQ==")
    ELSE LET i == CHOOSE k \in 1..rp.n : FlatObj(k).sha = sha
         IN  BlobData(sha, FlatKind(i).encoding, FlatKind(i).content)

\* extensions with a parser in DEFAULT_FILE_EXTRACTOR
DEFAULT_FILE_EXTRACTOR == {".md"}

\* parser.parse_file(file): the text segments, or [ok |-> FALSE] when it raises
parse_file(file_content) ==
    IF \E k \in 1..Len(file_content) : file_content[k] = 33 \/ file_content[k] >= 128
    THEN [ok |-> FALSE, segments |-> <<>>]
    ELSE [ok |-> TRUE, segments |-> << <<35>>, Utf8CodePoints(file_content) >>]

----------------------------------------------------------------------------
(* GithubRepositoryReader: the filters. A verdict is "True", "False" or the *)
(* name of the exception raised.                                            *)

Bool(b) == IF b THEN "True" ELSE "False"

_check_filter_directories(r, tree_obj_path) ==
    IF r.filter_directories = None THEN "TypeError"   \* unpacking None
    ELSE LET filter_directories == r.filter_directories[1][1]
             filter_type == r.filter_directories[1][2]
             related == \E k \in 1..Len(filter_directories) :
                            \/ startswith(tree_obj_path, filter_directories[k])
                            \/ startswith(filter_directories[k], tree_obj_path)
         IN  IF filter_type = EXCLUDE THEN Bool(~related)
             ELSE IF filter_type = INCLUDE THEN Bool(related)
             ELSE "ValueError"

_check_filter_file_extensions(r, tree_obj_path) ==
    IF r.filter_file_extensions = None THEN "TypeError"   \* unpacking None
    ELSE LET filter_file_extensions == r.filter_file_extensions[1][1]
             filter_type == r.filter_file_extensions[1][2]
             listed == get_file_extension(tree_obj_path) \in Range(filter_file_extensions)
         IN  IF filter_type = EXCLUDE THEN Bool(~listed)
             ELSE IF filter_type = INCLUDE THEN Bool(listed)
             ELSE "ValueError"

_allow_tree_obj(r, tree_obj_path) ==
    IF r.filter_directories # None THEN _check_filter_directories(r, tree_obj_path)
    ELSE IF r.filter_file_extensions # None
    THEN _check_filter_file_extensions(r, tree_obj_path)
    ELSE "True"

----------------------------------------------------------------------------
(* The inputs of a harvest. *)

FilterTypes == {EXCLUDE, INCLUDE, UNKNOWN}

DirectoryFilters ==
    {None} \cup {Some(<<d, m>>) : d \in {<<"docs">>}, m \in FilterTypes}

ExtensionFilters ==
    {None} \cup {Some(<<e, m>>) : e \in {<<".png">>}, m \in FilterTypes}

Readers ==
    [use_parser : BOOLEAN,
     concurrent_requests : (-1)..MaxConcurrency,
     filter_directories : DirectoryFilters,
     filter_file_extensions : ExtensionFilters]

NoException == [type |-> "", at |-> ""]
Raised(type, at) == [type |-> type, at |-> at]

NoProbe == [path |-> "", verdict |-> ""]

Frame(tree_sha, current_path, current_depth) ==
    [tree_sha |-> tree_sha, current_path |-> current_path,
     current_depth |-> current_depth, fetched |-> FALSE, tree |-> <<>>, i |-> 1,
     blobs_and_full_paths |-> <<>>]

Init ==
    /\ reader \in Readers
    /\ commit_sha \in {None, Some("22e198b")}
    /\ branch \in {None, Some("main")}
    /\ debug \in BOOLEAN
    /\ repo \in Repos
    /\ pc = "load_data"
    /\ exception = NoException
    /\ calls = <<>>
    /\ stack = <<>>
    /\ blobs_and_paths = <<>>
    /\ in_flight = {}
    /\ next_ref = 1
    /\ yield_log = <<>>
    /\ documents = <<>>
    /\ probe = NoProbe

Call(op, arg) == [op |-> op, arg |-> arg]

walk_vars == <<stack, blobs_and_paths>>
fetch_vars == <<in_flight, next_ref, yield_log, documents>>
input_vars == <<reader, commit_sha, branch, debug, repo, probe>>

\* an exception leaves load_data: the harvest is over
Raise(type, at) ==
    /\ pc' = "raised"
    /\ exception' = Raised(type, at)

----------------------------------------------------------------------------
(* load_data and its two entry points. *)

\* load_data without its first check: both arguments given goes on to the commit
load_data_dispatch_unchecked(sha, br) ==
    IF sha = None /\ br = None THEN "ValueError"
    ELSE IF sha # None THEN "_load_data_from_commit"
    ELSE "_load_data_from_branch"

\* where load_data goes for its two arguments
load_data_dispatch(sha, br) ==
    IF sha # None /\ br # None THEN "ValueError"
    ELSE IF sha = None /\ br = None THEN "ValueError"
    ELSE IF sha # None THEN "_load_data_from_commit"
    ELSE "_load_data_from_branch"

load_data ==
    /\ pc = "load_data"
    /\ LET to == load_data_dispatch(commit_sha, branch)
       IN  IF to = "ValueError" THEN Raise("ValueError", "load_data")
           ELSE pc' = to /\ UNCHANGED exception
    /\ UNCHANGED <<calls, walk_vars, fetch_vars, input_vars>>

_load_data_from_commit ==
    /\ pc = "_load_data_from_commit"
    /\ calls' = Append(calls, Call("get_commit", commit_sha[1]))
    /\ stack' = << Frame(RootTree, "", 0) >>
    /\ pc' = "_recurse_tree"
    /\ UNCHANGED <<exception, blobs_and_paths, fetch_vars, input_vars>>

_load_data_from_branch ==
    /\ pc = "_load_data_from_branch"
    /\ calls' = Append(calls, Call("get_branch", branch[1]))
    /\ stack' = << Frame(RootTree, "", 0) >>
    /\ pc' = "_recurse_tree"
    /\ UNCHANGED <<exception, blobs_and_paths, fetch_vars, input_vars>>

----------------------------------------------------------------------------
(* _recurse_tree: the frame on top of the stack runs; each get_tree is a    *)
(* suspension point.                                                        *)

Top == stack[Len(stack)]

SetTop(f) == [stack EXCEPT ![Len(stack)] = f]

\* the child the top frame's for-loop is at, and its path
CurrentObj == Top.tree[Top.i]
CurrentPath == os_path_join(Top.current_path, CurrentObj.path)

InLoop == pc = "_recurse_tree" /\ Top.fetched /\ Top.i <= Len(Top.tree)

\* tree_data = await get_tree(owner, repo, tree_sha)
_recurse_tree_get_tree ==
    /\ pc = "_recurse_tree"
    /\ ~Top.fetched
    /\ calls' = Append(calls, Call("get_tree", Top.tree_sha))
    /\ stack' = SetTop([Top EXCEPT !.fetched = TRUE,
                                   !.tree = get_tree(repo, Top.tree_sha)])
    /\ UNCHANGED <<pc, exception, blobs_and_paths, fetch_vars, input_vars>>

\* the walk without pruning: a rejected directory is recursed into all the same
walk_directory_verdict_unpruned(r, file_path) ==
    IF _check_filter_directories(r, file_path) = "False" THEN "True"
    ELSE _check_filter_directories(r, file_path)

\* the directory filter as the walk applies it to a child of type "tree"
walk_directory_verdict(r, file_path) == _check_filter_directories(r, file_path)

\* the walk deciding a blob by _allow_tree_obj: the directory filter, when
\* configured, takes precedence and the extension filter is skipped
walk_blob_verdict_by_precedence(r, file_path) == _allow_tree_obj(r, file_path)

\* the extension filter as the walk applies it to a child of type "blob"
walk_blob_verdict(r, file_path) == _check_filter_file_extensions(r, file_path)

\* a child of type "tree": pruned, or recursed into
_recurse_tree_tree ==
    /\ InLoop
    /\ CurrentObj.type = "tree"
    /\ LET verdict == walk_directory_verdict(reader, CurrentPath)
       IN  CASE verdict = "False" ->
                  /\ stack' = SetTop([Top EXCEPT !.i = @ + 1])
                  /\ UNCHANGED <<pc, exception>>
             [] verdict = "True" ->
                  /\ stack' = Append(stack, Frame(CurrentObj.sha, CurrentPath,
                                                  Top.current_depth + 1))
                  /\ UNCHANGED <<pc, exception>>
             [] OTHER ->
                  /\ Raise(verdict, "_recurse_tree")
                  /\ UNCHANGED stack
    /\ UNCHANGED <<calls, blobs_and_paths, fetch_vars, input_vars>>

\* a child of type "blob": skipped, or accumulated with its full path
_recurse_tree_blob ==
    /\ InLoop
    /\ CurrentObj.type = "blob"
    /\ LET verdict == walk_blob_verdict(reader, CurrentPath)
       IN  CASE verdict = "False" ->
                  /\ stack' = SetTop([Top EXCEPT !.i = @ + 1])
                  /\ UNCHANGED <<pc, exception>>
             [] verdict = "True" ->
                  /\ stack' = SetTop([Top EXCEPT
                         !.i = @ + 1,
                         !.blobs_and_full_paths = Append(@, <<CurrentObj, CurrentPath>>)])
                  /\ UNCHANGED <<pc, exception>>
             [] OTHER ->
                  /\ Raise(verdict, "_recurse_tree")
                  /\ UNCHANGED stack
    /\ UNCHANGED <<calls, blobs_and_paths, fetch_vars, input_vars>>

\* _recurse_tree as a function of its arguments, for the children from the
\* i-th on: whether it raises, and the list it returns
RECURSIVE recurse_tree(_, _, _, _, _)
recurse_tree(r, rp, tree_sha, current_path, i) ==
    LET tree == get_tree(rp, tree_sha)
        raises == [raised |-> TRUE, refs |-> <<>>]
    IN  IF i > Len(tree) THEN [raised |-> FALSE, refs |-> <<>>]
        ELSE LET tree_obj == tree[i]
                 file_path == os_path_join(current_path, tree_obj.path)
                 verdict == IF tree_obj.type = "tree"
                            THEN walk_directory_verdict(r, file_path)
                            ELSE walk_blob_verdict(r, file_path)
                 here == IF verdict = "False" THEN [raised |-> FALSE, refs |-> <<>>]
                         ELSE IF verdict # "True" THEN raises
                         ELSE IF tree_obj.type = "tree"
                         THEN recurse_tree(r, rp, tree_obj.sha, file_path, 1)
                         ELSE [raised |-> FALSE, refs |-> << <<tree_obj, file_path>> >>]
                 rest == recurse_tree(r, rp, tree_sha, current_path, i + 1)
             IN  IF here.raised \/ rest.raised THEN raises
                 ELSE [raised |-> FALSE, refs |-> here.refs \o rest.refs]

\* return blobs_and_full_paths: to the caller's extend(), or to the entry point
_recurse_tree_return ==
    /\ pc = "_recurse_tree"
    /\ Top.fetched
    /\ Top.i > Len(Top.tree)
    /\ IF Len(stack) = 1
       THEN /\ blobs_and_paths' = Top.blobs_and_full_paths
            /\ stack' = <<>>
            /\ pc' = "_generate_documents"
       ELSE /\ LET caller == stack[Len(stack) - 1]
               IN  stack' = [SubSeq(stack, 1, Len(stack) - 1) EXCEPT ![Len(stack) - 1] =
                         [caller EXCEPT
                            !.i = @ + 1,
                            !.blobs_and_full_paths = @ \o Top.blobs_and_full_paths]]
            /\ UNCHANGED <<pc, blobs_and_paths>>
    /\ UNCHANGED <<exception, calls, fetch_vars, input_vars>>

----------------------------------------------------------------------------
(* _generate_documents: the body of the async-for loop, for one blob.       *)

Document(text, doc_id, file_path, file_name) ==
    [text |-> text, doc_id |-> doc_id,
     extra_info |-> [file_path |-> file_path, file_name |-> file_name]]

NoDocument == Document(<<>>, "", "", "")

\* assert blob_data.encoding == "base64"
assert_encoding(dbg, blob_data) ==
    IF dbg /\ blob_data.encoding # "base64" THEN "AssertionError" ELSE "ok"

\* decode_blob without its except clause: binascii.Error propagates
decode_blob_uncaught(blob_data) ==
    LET d == b64decode(blob_data.content)
    IN  IF d.ok THEN [kind |-> "ok", bytes |-> d.bytes]
        ELSE [kind |-> "raise", bytes |-> <<>>]

\* try: decoded_bytes = base64.b64decode(...)  except binascii.Error: continue
decode_blob(blob_data) ==
    LET d == b64decode(blob_data.content)
    IN  IF d.ok THEN [kind |-> "ok", bytes |-> d.bytes]
        ELSE [kind |-> "continue", bytes |-> <<>>]

\* _parse_supported_file without "if parsed_file is None: return None": a
\* Document is built from the failed parse
_parse_supported_file_unchecked(file_path, file_content, tree_sha, tree_path) ==
    LET file_extension == get_file_extension(file_path)
    IN  IF file_extension \in DEFAULT_FILE_EXTRACTOR
        THEN LET parsed == parse_file(file_content)
             IN  Some(Document(join(<<10, 10>>, parsed.segments), tree_sha,
                               file_path, tree_path))
        ELSE None

_parse_supported_file(file_path, file_content, tree_sha, tree_path) ==
    LET file_extension == get_file_extension(file_path)
    IN  IF file_extension \in DEFAULT_FILE_EXTRACTOR
        THEN LET parsed == parse_file(file_content)
             IN  IF ~parsed.ok THEN None     \* except Exception: parsed_file = None
                 ELSE Some(Document(join(<<10, 10>>, parsed.segments), tree_sha,
                                    file_path, tree_path))
        ELSE None

\* try: decoded_text = decoded_bytes.decode("utf-8")  except UnicodeDecodeError: continue
decode_text(decoded_bytes) ==
    LET t == utf8_decode(decoded_bytes)
    IN  IF t.ok THEN [kind |-> "ok", text |-> t.text]
        ELSE [kind |-> "continue", text |-> <<>>]

Outcome(kind, document) == [kind |-> kind, document |-> document]

\* one pass of the loop body: "raise", "continue" (the blob is skipped) or
\* "append" (documents.append(document))
loop_body(r, dbg, blob_data, full_path) ==
    IF assert_encoding(dbg, blob_data) # "ok"
    THEN Outcome("raise", NoDocument)
    ELSE LET decoded == decode_blob(blob_data)
         IN  IF decoded.kind # "ok" THEN Outcome(decoded.kind, NoDocument)
             ELSE LET document ==
                          IF r.use_parser
                          THEN _parse_supported_file(full_path, decoded.bytes,
                                                     blob_data.sha, full_path)
                          ELSE None
                      raw == decode_text(decoded.bytes)
                  IN  IF document # None THEN Outcome("append", document[1])
                      ELSE IF raw.kind # "ok" THEN Outcome(raw.kind, NoDocument)
                      ELSE Outcome("append",
                                   Document(raw.text, blob_data.sha, full_path,
                                            LastSegment(full_path)))

----------------------------------------------------------------------------
(* The bounded fetcher (BufferedGitBlobDataIterator) and the loop over it.  *)

\* a window one larger than the configured limit
buffer_size_plus_one(r) == r.concurrent_requests + 1

\* buffer_size=self._concurrent_requests
buffer_size(r) == r.concurrent_requests

RefSha(k) == blobs_and_paths[k][1].sha
RefPath(k) == blobs_and_paths[k][2]

RECURSIVE BlobCalls(_, _)
BlobCalls(from, to) ==
    IF from > to THEN <<>>
    ELSE <<Call("get_blob", RefSha(from))>> \o BlobCalls(from + 1, to)

\* the fetcher refuses a concurrency limit below 1
window_rejects(size) == size < 1

\* the fetcher's window at the start: the first `size` references
initial_window(size, total) == 1..Min(size, total)

\* the window once retrieval k has completed: the next reference not yet
\* started, if any, takes its place
refill(window, k, next, total) ==
    IF next <= total THEN (window \ {k}) \cup {next} ELSE window \ {k}

\* the iterator is built and its window filled with the first references
_generate_documents ==
    /\ pc = "_generate_documents"
    /\ IF window_rejects(buffer_size(reader))
       THEN /\ Raise("InvalidConcurrency", "_generate_documents")
            /\ UNCHANGED <<calls, in_flight, next_ref>>
       ELSE LET window == initial_window(buffer_size(reader), Len(blobs_and_paths))
            IN  /\ in_flight' = window
                /\ next_ref' = Cardinality(window) + 1
                /\ calls' = calls \o BlobCalls(1, Cardinality(window))
                /\ pc' = "iterate"
                /\ UNCHANGED exception
    /\ UNCHANGED <<walk_vars, yield_log, documents, input_vars>>

\* an in-flight retrieval completes: its result is yielded to the loop body,
\* and the next reference not yet started takes its place
iterate(k) ==
    /\ pc = "iterate"
    /\ k \in in_flight
    /\ yield_log' = Append(yield_log, k)
    /\ LET out == loop_body(reader, debug, get_blob(repo, RefSha(k)), RefPath(k))
       IN  IF out.kind = "raise"
           THEN /\ Raise("AssertionError", "_generate_documents")
                /\ in_flight' = in_flight \ {k}
                /\ UNCHANGED <<calls, next_ref, documents>>
           ELSE /\ documents' = IF out.kind = "append"
                                THEN Append(documents, out.document)
                                ELSE documents
                /\ in_flight' = refill(in_flight, k, next_ref, Len(blobs_and_paths))
                /\ IF next_ref <= Len(blobs_and_paths)
                   THEN /\ calls' = Append(calls, Call("get_blob", RefSha(next_ref)))
                        /\ next_ref' = next_ref + 1
                   ELSE UNCHANGED <<calls, next_ref>>
                /\ UNCHANGED <<pc, exception>>
    /\ UNCHANGED <<walk_vars, input_vars>>

\* the window is empty and the backlog exhausted: return documents
return_documents ==
    /\ pc = "iterate"
    /\ in_flight = {}
    /\ next_ref > Len(blobs_and_paths)
    /\ pc' = "done"
    /\ UNCHANGED <<exception, calls, walk_vars, fetch_vars, input_vars>>

----------------------------------------------------------------------------

Next ==
    \/ load_data
    \/ _load_data_from_commit
    \/ _load_data_from_branch
    \/ _recurse_tree_get_tree
    \/ _recurse_tree_tree
    \/ _recurse_tree_blob
    \/ _recurse_tree_return
    \/ _generate_documents
    \/ \E k \in in_flight : iterate(k)
    \/ return_documents

Spec == Init /\ [][Next]_vars

----------------------------------------------------------------------------
(* _check_filter_directories alone, applied to one path.                    *)

ProbePaths ==
    {"docs/readme.md", "src/main.go", "doc", "docs", "docs2", "src", "d",
     "docs/api", "docs/api/v1", ""}

ProbeDirectories == {<<"docs">>, <<"src", "docs/api">>, <<"docs/">>, <<>>}

FilterInit ==
    /\ reader \in [use_parser : {FALSE}, concurrent_requests : {1},
                    filter_directories :
                        {None} \cup {Some(<<d, m>>) : d \in ProbeDirectories,
                                                      m \in FilterTypes},
                    filter_file_extensions : {None}]
    /\ probe \in [path : ProbePaths, verdict : {""}]
    /\ commit_sha = None
    /\ branch = None
    /\ debug = TRUE
    /\ repo = [name |-> "flat", n |-> 0]
    /\ pc = "probe"
    /\ exception = NoException
    /\ calls = <<>>
    /\ stack = <<>>
    /\ blobs_and_paths = <<>>
    /\ in_flight = {}
    /\ next_ref = 1
    /\ yield_log = <<>>
    /\ documents = <<>>

check_path ==
    /\ pc = "probe"
    /\ probe' = [probe EXCEPT !.verdict = _check_filter_directories(reader, probe.path)]
    /\ pc' = "probed"
    /\ UNCHANGED <<reader, commit_sha, branch, debug, repo, exception, calls,
                   walk_vars, fetch_vars>>

FilterNext == check_path

FilterSpec == FilterInit /\ [][FilterNext]_vars

----------------------------------------------------------------------------
(* Properties. *)

BadSelector ==
    \/ commit_sha # None /\ branch # None
    \/ commit_sha = None /\ branch = None

\* C1: load_data called with both commit_sha and branch set, or with neither,
\* fails with the selector ValueError, and no repository API call has been
\* made when it is raised.
C1_SelectorValidation ==
    (BadSelector /\ pc # "load_data")
        => /\ pc = "raised"
           /\ exception = Raised("ValueError", "load_data")
           /\ calls = <<>>

C1_Witness ==
    /\ commit_sha # None
    /\ branch # None
    /\ pc = "raised"
    /\ exception = Raised("ValueError", "load_data")

\* every blob of the repository, as (sha, full path) pairs
RECURSIVE TreeBlobs(_, _, _)
TreeBlobs(rp, tree_sha, path) ==
    LET tree == get_tree(rp, tree_sha)
    IN  UNION {IF tree[k].type = "blob"
               THEN {<<tree[k].sha, os_path_join(path, tree[k].path)>>}
               ELSE TreeBlobs(rp, tree[k].sha, os_path_join(path, tree[k].path))
               : k \in 1..Len(tree)}

Accumulated == {<<blobs_and_paths[k][1].sha, blobs_and_paths[k][2]>> :
                    k \in 1..Len(blobs_and_paths)}

WalkReturned == pc \in {"_generate_documents", "iterate", "done"}
                    \/ exception.at = "_generate_documents"

\* C2: with neither filter configured every path is admitted: the walk raises
\* no error and accumulates one BlobReference for every blob of the tree.
C2_NoFilterAdmitsAll ==
    (reader.filter_directories = None /\ reader.filter_file_extensions = None)
        => /\ exception.at # "_recurse_tree"
           /\ WalkReturned => /\ Accumulated = TreeBlobs(repo, RootTree, "")
                              /\ Len(blobs_and_paths) = Cardinality(Accumulated)

\* C3: tree {a.md, b.png, dir/c.md}, extension filter EXCLUDE {.png} alone,
\* parser disabled: load_data returns exactly the Documents of a.md and
\* dir/c.md, each with the decoded content of its blob as text.
C3_EndToEnd ==
    (/\ repo.name = "e2e"
     /\ reader.filter_directories = None
     /\ reader.filter_file_extensions = Some(<< <<".png">>, EXCLUDE >>)
     /\ ~reader.use_parser
     /\ reader.concurrent_requests >= 1)
        => /\ pc # "raised" \/ exception.at = "load_data"
           /\ pc = "done" =>
                /\ Len(documents) = 2
                /\ Range(documents) = {Document(<<97>>, "b_a", "a.md", "a.md"),
                                       Document(<<98>>, "b_c", "dir/c.md", "c.md")}

\* the path lies inside one of the listed directories
InsideListed(directories, path) ==
    \E k \in 1..Len(directories) :
        startswith(path, os_path_join(directories[k], ""))

\* C4: under a directory filter in INCLUDE mode every BlobReference the walk
\* returns has a path inside one of the listed directories.
C4_IncludeOnlyListed ==
    (reader.filter_directories # None /\ reader.filter_directories[1][2] = INCLUDE)
        => \A k \in 1..Len(blobs_and_paths) :
               InsideListed(reader.filter_directories[1][1], blobs_and_paths[k][2])

\* C5: INCLUDE with dirs = {"docs"} admits "docs/readme.md" and admits neither
\* "src/main.go" nor "doc".
C5_DirectoryAdmission ==
    (pc = "probed" /\ reader.filter_directories = Some(<< <<"docs">>, INCLUDE >>))
        => /\ probe.path = "docs/readme.md" => probe.verdict = "True"
           /\ probe.path = "src/main.go" => probe.verdict = "False"
           /\ probe.path = "doc" => probe.verdict = "False"


\* the blob behind reference k, as the client serves it, and what it decodes to
Blob(k) == get_blob(repo, RefSha(k))
Decoded(k) == b64decode(Blob(k).content)
DocumentsOf(k) == {j \in 1..Len(documents) : documents[j].doc_id = RefSha(k)}
Yielded == Range(yield_log)
LastYielded(k) == yield_log # <<>> /\ yield_log[Len(yield_log)] = k

\* C6: a fetched blob whose encoding tag is not base64 is skipped: it yields no
\* Document and no exception escapes load_data because of it.
C6_NonBase64Skipped ==
    \A k \in Yielded :
        Blob(k).encoding # "base64"
            => /\ DocumentsOf(k) = {}
               /\ LastYielded(k) => pc # "raised"

\* a parser is registered for the blob's extension and raises on its bytes
ParserRaises(k) ==
    /\ reader.use_parser
    /\ get_file_extension(RefPath(k)) \in DEFAULT_FILE_EXTRACTOR
    /\ Decoded(k).ok
    /\ ~parse_file(Decoded(k).bytes).ok

\* a parser is registered for the blob's extension and returns its text
ParserReturns(k) ==
    /\ reader.use_parser
    /\ get_file_extension(RefPath(k)) \in DEFAULT_FILE_EXTRACTOR
    /\ Decoded(k).ok
    /\ parse_file(Decoded(k).bytes).ok

BadBase64(k) == Blob(k).encoding = "base64" /\ ~Decoded(k).ok

BadUtf8(k) ==
    /\ Blob(k).encoding = "base64"
    /\ Decoded(k).ok
    /\ ~ParserReturns(k)
    /\ ~Utf8Valid(Decoded(k).bytes)

\* base64-tagged, well-formed, and either parsed or valid UTF-8
Sound(k) ==
    /\ Blob(k).encoding = "base64"
    /\ Decoded(k).ok
    /\ ParserReturns(k) \/ Utf8Valid(Decoded(k).bytes)

\* C7: a blob whose content is malformed base64, or whose decoded bytes are not
\* valid UTF-8 on the raw-text path, yields no Document and raises nothing;
\* a harvest that returns holds one Document for every other sound blob.
C7_UndecodableSkipped ==
    /\ \A k \in Yielded :
           (BadBase64(k) \/ BadUtf8(k))
               => /\ DocumentsOf(k) = {}
                  /\ LastYielded(k) => pc # "raised"
    /\ pc = "done" =>
           \A k \in 1..Len(blobs_and_paths) :
               Sound(k) => Cardinality(DocumentsOf(k)) = 1

C7_Witness ==
    /\ pc = "done"
    /\ \E k \in Yielded : BadBase64(k)
    /\ \E k \in Yielded : BadUtf8(k) /\ ~reader.use_parser
    /\ \E k \in Yielded : Sound(k) /\ Cardinality(DocumentsOf(k)) = 1

UnknownMode(filter) == filter # None /\ filter[1][2] \notin {INCLUDE, EXCLUDE}

\* C9: a filter whose mode is neither INCLUDE nor EXCLUDE, or a concurrency
\* limit of 0 or less, fails the harvest with a validation error for every
\* tree, before any repository API call.
C9_ValidationBeforeIO ==
    (\/ UnknownMode(reader.filter_directories)
     \/ UnknownMode(reader.filter_file_extensions)
     \/ reader.concurrent_requests <= 0)
        => /\ calls = <<>>
           /\ pc # "done"

NoDuplicates(s) == \A a, b \in 1..Len(s) : s[a] = s[b] => a = b

Backlog == next_ref..Len(blobs_and_paths)

\* C10: with a concurrency limit N >= 1 at most N retrievals are in flight in
\* every state; every reference is in the backlog, in flight or yielded, and
\* in one of the three only; the fetch never stalls with references left (the
\* window is empty only when the backlog is); and when the loop ends every
\* reference's result has been yielded exactly once, whatever the completion
\* order.
C10_BoundedFetch ==
    /\ pc = "iterate" =>
           /\ reader.concurrent_requests >= 1
           /\ Cardinality(in_flight) <= reader.concurrent_requests
           /\ in_flight # {} \/ Backlog = {}
    /\ pc \in {"iterate", "done"} =>
           /\ Yielded \cup in_flight \cup Backlog = 1..Len(blobs_and_paths)
           /\ Yielded \cap in_flight = {}
           /\ Yielded \cap Backlog = {}
           /\ in_flight \cap Backlog = {}
    /\ NoDuplicates(yield_log)
    /\ pc = "done" =>
           /\ Yielded = 1..Len(blobs_and_paths)
           /\ Len(yield_log) = Len(blobs_and_paths)

C10_Witness ==
    /\ pc = "done"
    /\ reader.concurrent_requests = 2
    /\ Len(blobs_and_paths) = 5
    /\ Len(yield_log) = 5
    /\ yield_log[1] = 2
    /\ yield_log[5] = 1


BothFilters == reader.filter_directories # None /\ reader.filter_file_extensions # None

KnownMode(filter) == filter # None /\ filter[1][2] \in {INCLUDE, EXCLUDE}

\* the walk of the whole repository by a reader, from the root
WalkOf(r) == recurse_tree(r, repo, RootTree, "", 1)

RefSet(refs) == {<<refs[k][1].sha, refs[k][2]>> : k \in 1..Len(refs)}

\* the stepwise walk and the function agree on what the walk returns
WalkAgrees ==
    /\ WalkReturned => ~WalkOf(reader).raised /\ WalkOf(reader).refs = blobs_and_paths
    /\ exception.at = "_recurse_tree" => WalkOf(reader).raised

\* C11 as stated: with both filters configured the extension filter has no
\* effect on the walk: it returns the set it returns with the same directory
\* filter and no extension filter, or any other extension filter.
C11_ExtensionFilterIgnored ==
    (BothFilters /\ WalkReturned)
        => \A e \in {f \in ExtensionFilters : f = None \/ KnownMode(f)} :
               LET other == WalkOf([reader EXCEPT !.filter_file_extensions = e])
               IN  ~other.raised /\ RefSet(other.refs) = Accumulated

\* the directories a path lies in, outermost first
Ancestors(path) == {SubSeq(path, 1, i - 1) : i \in Positions(path, "/")}

\* the blobs both filters admit: every directory on the way down passes the
\* directory filter and the blob's path passes the extension filter
AdmittedByBoth(r, rp) ==
    {b \in TreeBlobs(rp, RootTree, "") :
        /\ \A d \in Ancestors(b[2]) : _check_filter_directories(r, d) = "True"
        /\ _check_filter_file_extensions(r, b[2]) = "True"}

\* C11, amended: with both filters configured both are evaluated during the
\* walk, the directory filter on every directory child and the extension
\* filter on every blob child: the walk returns, once each, exactly the blobs
\* the extension filter admits below directories the directory filter admits,
\* and it raises nothing when both modes are INCLUDE or EXCLUDE.
C11_BothFiltersApply ==
    BothFilters
        => /\ (KnownMode(reader.filter_directories)
                  /\ KnownMode(reader.filter_file_extensions))
                 => exception.at # "_recurse_tree"
           /\ WalkReturned => /\ Accumulated = AdmittedByBoth(reader, repo)
                              /\ Len(blobs_and_paths) = Cardinality(Accumulated)

C11_Witness ==
    /\ KnownMode(reader.filter_directories)
    /\ KnownMode(reader.filter_file_extensions)
    /\ WalkReturned
    /\ Accumulated # {}
    /\ \E b \in TreeBlobs(repo, RootTree, "") \ Accumulated :
           /\ \A d \in Ancestors(b[2]) : _check_filter_directories(reader, d) = "True"
           /\ _check_filter_file_extensions(reader, b[2]) = "False"
    /\ \E b \in Accumulated : Ancestors(b[2]) # {}


\* every directory of the repository, as (tree sha, full path) pairs
RECURSIVE TreeDirs(_, _, _)
TreeDirs(rp, tree_sha, path) ==
    LET tree == get_tree(rp, tree_sha)
    IN  UNION {IF tree[k].type = "tree"
               THEN {<<tree[k].sha, os_path_join(path, tree[k].path)>>}
                        \cup TreeDirs(rp, tree[k].sha, os_path_join(path, tree[k].path))
               ELSE {}
               : k \in 1..Len(tree)}

Directories == TreeDirs(repo, RootTree, "")

\* the walk comes to the directory: every directory above it is admitted
Reached(d) == \A a \in Ancestors(d[2]) : _check_filter_directories(reader, a) = "True"

Rejects(d) == _check_filter_directories(reader, d[2]) = "False"
Admits(d) == _check_filter_directories(reader, d[2]) = "True"

\* how often get_tree has been called for a tree
GetTreeCalls(sha) ==
    Cardinality({j \in 1..Len(calls) : calls[j] = Call("get_tree", sha)})

\* the paths accumulated so far, by the walk's activations and its result
AccumulatedPaths ==
    {blobs_and_paths[k][2] : k \in 1..Len(blobs_and_paths)}
        \cup UNION {{stack[f].blobs_and_full_paths[k][2] :
                         k \in 1..Len(stack[f].blobs_and_full_paths)} :
                    f \in 1..Len(stack)}

Beneath(path, d) == startswith(path, d[2] \o "/")

\* C12: a directory child the directory filter rejects is never descended
\* into: get_tree is never called for it nor for a directory beneath it, and
\* no blob beneath it is accumulated. get_tree is called at most once per
\* tree, only for the root and for admitted directories the walk reaches, and
\* exactly once for each of them when the walk returns.
C12_WalkerPruning ==
    /\ \A d \in Directories :
           (Reached(d) /\ Rejects(d))
               => /\ GetTreeCalls(d[1]) = 0
                  /\ \A e \in Directories : Beneath(e[2], d) => GetTreeCalls(e[1]) = 0
                  /\ \A path \in AccumulatedPaths : ~Beneath(path, d)
    /\ \A d \in Directories :
           /\ GetTreeCalls(d[1]) <= 1
           /\ GetTreeCalls(d[1]) = 1 => Reached(d) /\ Admits(d)
    /\ GetTreeCalls(RootTree) <= 1
    /\ WalkReturned =>
           /\ GetTreeCalls(RootTree) = 1
           /\ \A d \in Directories : (Reached(d) /\ Admits(d)) => GetTreeCalls(d[1]) = 1

C12_Witness ==
    /\ WalkReturned
    /\ \E d \in Directories :
           /\ Reached(d) /\ Rejects(d)
           /\ \E e \in Directories : Beneath(e[2], d) /\ Admits(e)
           /\ \E b \in TreeBlobs(repo, RootTree, "") : Beneath(b[2], d)
    /\ \E d \in Directories :
           /\ Ancestors(d[2]) # {}
           /\ Reached(d) /\ Admits(d)
           /\ GetTreeCalls(d[1]) = 1

====
